---- MODULE Spec2Model ----
(***************************************************************************)
(* SpeedScore: polygenic score calculation over VCF files.                 *)
(*                                                                         *)
(* The module models these parts of the repository:                       *)
(*   - multi_sample.rs  calculate_polygenic_score_multi / process_chunk /  *)
(*                      parse_allele_count / write_csv_output  (SpecMulti) *)
(*   - multi_sample.rs  parse_allele_count as a pure function  (SpecGT)    *)
(*   - single_sample.rs calculate_polygenic_score              (SpecSingle)*)
(*   - main.rs          calculate_polygenic_score / process_chunk          *)
(*                      (byte-range chunking)                  (SpecChunk) *)
(*   - common.rs        FileType::detect                      (SpecDetect) *)
(*   - the "chr" normalization of process_chunk and                        *)
(*     load_scoring_file                                        (SpecNorm) *)
(*   - both scorers' accumulators together                   (SpecScorers) *)
(*                                                                         *)
(* Bytes are one-character strings; a byte string (&[u8], &str, String) is *)
(* a sequence of them.  XFF stands for a byte that is not valid UTF-8; all *)
(* other bytes of the model are ASCII.  Scores are integers: the weights   *)
(* of the model are whole numbers, so f64 sums of them are exact.          *)
(***************************************************************************)
EXTENDS Integers, Sequences, FiniteSets, TLC

VARIABLES
    pc,               \* position of the running function
    ret,              \* value returned by the function (NoRet while running)
    effect_weights,   \* the weight table handed to the scorer
    gt,               \* parse_allele_count: argument gt
    effect_is_alt,    \* parse_allele_count: argument effect_is_alt
    allele_count,     \* parse_allele_count: returned Option<u8>
    vcf,              \* bytes of the variant stream behind the reader
    cursor,           \* number of bytes the reader has consumed
    sample_names,     \* multi: Vec<String> from the #CHROM line
    sample_data,      \* multi: Vec<SampleData>
    lines_processed,  \* multi: lines_processed
    vcf_chr_format,   \* multi: vcf_chr_format
    output,           \* multi: the file at output_path
    eof_reads,        \* multi: read_line calls of the header scan that returned 0
    score,            \* single: score
    total_variants,   \* single: total_variants
    matched_variants, \* single: matched_variants
    mmap,             \* main: the memory-mapped file
    chunk_size,       \* main: chunk_size
    results,          \* main: per-chunk results collected so far
    chr_str,          \* normalization: the chromosome string of a record
    chr_stripped      \* normalization: the string after trim_start_matches

vars == <<pc, ret, effect_weights, gt, effect_is_alt, allele_count, vcf, cursor,
          sample_names, sample_data, lines_processed, vcf_chr_format, output,
          eof_reads, score, total_variants, matched_variants, mmap, chunk_size,
          results, chr_str, chr_stripped>>

normVars == <<chr_str, chr_stripped>>
gtVars == <<gt, effect_is_alt, allele_count>>
multiVars == <<sample_names, sample_data, lines_processed, vcf_chr_format,
               output, eof_reads>>
singleVars == <<score, total_variants, matched_variants>>
chunkVars == <<mmap, chunk_size, results>>
readerVars == <<vcf, cursor>>

-----------------------------------------------------------------------------
(* Bounds of the model.                                                    *)

\* longest genotype string handed to parse_allele_count in SpecGT
MaxGtLen == 3
\* most lines after the #CHROM line of a variant stream in SpecMulti
MaxDataLines == 2
\* most lines of a headerless stream in SpecMulti
MaxMetaLines == 2
\* most end-of-stream reads of the header scan that the model follows
MaxEofReads == 2
\* most lines of a single-sample stream in SpecSingle
MaxSingleLines == 2
\* most lines of the memory-mapped file in SpecChunk
MaxMmapLines == 2
\* largest chunk_size tried in SpecChunk besides the whole file
MaxChunkSize == 3
\* longest chromosome string normalized in SpecNorm
MaxChrLen == 7
\* most lines after the first line of a stream in SpecDetect
MaxDetectLines == 2
\* most tab-separated fields of a #CHROM line in SpecDetect
MaxHeaderFields == 12

-----------------------------------------------------------------------------
(* Bytes and options.                                                      *)

TAB == "\t"
NL == "\n"
XFF == "xFF"

None == <<"None">>
Some(x) == <<"Some", x>>
NoRet == <<"running">>

\* values left in the variables a specification does not use
GtIdle == gt = <<>> /\ effect_is_alt = FALSE /\ allele_count = None
MultiIdle ==
    /\ sample_names = <<>> /\ sample_data = <<>> /\ lines_processed = 0
    /\ vcf_chr_format = FALSE /\ output = <<>> /\ eof_reads = 0
SingleIdle == score = 0 /\ total_variants = 0 /\ matched_variants = 0
ChunkIdle == mmap = <<>> /\ chunk_size = 0 /\ results = <<>>
ReaderIdle == vcf = <<>> /\ cursor = 0
NormIdle == chr_str = <<>> /\ chr_stripped = <<>>

-----------------------------------------------------------------------------
(* Byte-string helpers: slice::split, str::split, starts_with.             *)

HasDelim(s, D) == \E i \in 1..Len(s) : s[i] \in D
FirstDelim(s, D) ==
    CHOOSE i \in 1..Len(s) : s[i] \in D /\ \A j \in 1..(i - 1) : s[j] \notin D

\* the pieces of s between the bytes of D: n delimiters give n + 1 pieces
RECURSIVE SplitOn(_, _)
SplitOn(s, D) ==
    IF ~HasDelim(s, D) THEN <<s>>
    ELSE LET i == FirstDelim(s, D)
         IN <<SubSeq(s, 1, i - 1)>> \o SplitOn(SubSeq(s, i + 1, Len(s)), D)

StartsWith(s, p) == Len(s) >= Len(p) /\ SubSeq(s, 1, Len(p)) = p

\* mutant: the prefix is removed once only, as str::strip_prefix does
strip_prefix_once(s, p) ==
    IF p # <<>> /\ Len(s) >= Len(p) /\ SubSeq(s, 1, Len(p)) = p
    THEN SubSeq(s, Len(p) + 1, Len(s))
    ELSE s

\* str::trim_start_matches: the prefix is removed as often as it matches
RECURSIVE trim_start_matches(_, _)
trim_start_matches(s, p) ==
    IF p # <<>> /\ StartsWith(s, p)
    THEN trim_start_matches(SubSeq(s, Len(p) + 1, Len(s)), p)
    ELSE s

\* std::str::from_utf8(..).is_ok(): every byte of the model but XFF is ASCII
valid_utf8(s) == \A i \in 1..Len(s) : s[i] # XFF

Digits == {"0", "1", "2", "3", "4", "5", "6", "7", "8", "9"}
DigitVal(c) ==
    CASE c = "0" -> 0 [] c = "1" -> 1 [] c = "2" -> 2 [] c = "3" -> 3
      [] c = "4" -> 4 [] c = "5" -> 5 [] c = "6" -> 6 [] c = "7" -> 7
      [] c = "8" -> 8 [] c = "9" -> 9

RECURSIVE DecValue(_)
DecValue(s) ==
    IF s = <<>> THEN 0
    ELSE DecValue(SubSeq(s, 1, Len(s) - 1)) * 10 + DigitVal(s[Len(s)])

\* str::parse::<u32>(): an optional '+', then one or more decimal digits.
\* The position strings of the model have at most two digits, far from
\* the u32 overflow that parse also rejects.
parse_u32(s) ==
    LET d == IF s # <<>> /\ s[1] = "+" THEN Tail(s) ELSE s
    IN IF d = <<>> \/ (\E i \in 1..Len(d) : d[i] \notin Digits) THEN None
       ELSE Some(DecValue(d))

\* BufRead::read_until(b'\n') / read_line from offset cur: the bytes up to
\* and including the next newline, or up to the end of the stream
ReadUntilNL(bytes, cur) ==
    LET rest == SubSeq(bytes, cur + 1, Len(bytes))
    IN IF HasDelim(rest, {NL}) THEN SubSeq(rest, 1, FirstDelim(rest, {NL}))
       ELSE rest

\* str::split_whitespace: the non-empty pieces between whitespace
RECURSIVE DropEmpty(_)
DropEmpty(ps) ==
    IF ps = <<>> THEN <<>>
    ELSE IF Head(ps) = <<>> THEN DropEmpty(Tail(ps))
    ELSE <<Head(ps)>> \o DropEmpty(Tail(ps))
split_whitespace(s) == DropEmpty(SplitOn(s, {TAB, NL, " ", "\r"}))

-----------------------------------------------------------------------------
(* multi_sample.rs: parse_allele_count.                                    *)

\* the `for c in gt.chars()` loop from character i on, with `count` so far
RECURSIVE pac_loop(_, _, _, _)
pac_loop(g, i, count, is_alt) ==
    IF i > Len(g) THEN Some(count)
    ELSE IF g[i] = "0" /\ ~is_alt THEN pac_loop(g, i + 1, count + 1, is_alt)
    ELSE IF g[i] = "1" /\ is_alt THEN pac_loop(g, i + 1, count + 1, is_alt)
    ELSE IF g[i] \in {".", "2", "3"} THEN None
    ELSE pac_loop(g, i + 1, count, is_alt)

\* mutant: the orientation is ignored, '1' is always the counted allele
parse_allele_count_alt_only(g, is_alt) == pac_loop(g, 1, 0, TRUE)

parse_allele_count(g, is_alt) == pac_loop(g, 1, 0, is_alt)

-----------------------------------------------------------------------------
(* multi_sample.rs: process_chunk.                                         *)

\* HashMap::get(&(chr, pos)) on the weight table
weights_get(ew, chr, pos) ==
    IF \E e \in ew : e.chr = chr /\ e.pos = pos
    THEN Some(CHOOSE e \in ew : e.chr = chr /\ e.pos = pos)
    ELSE None

\* SampleData::default()
SampleDefault == [score |-> 0, matched_variants |-> 0, total_variants |-> 0]

\* `for sample in sample_data.iter_mut() { sample.total_variants += 1; }`
bump_total(sd) ==
    [i \in 1..Len(sd) |-> [sd[i] EXCEPT !.total_variants = @ + 1]]

\* mutant: the matched path forgets `sample.total_variants += 1`
score_samples_no_total(sd, genotype_fields, weight, is_alt) ==
    [i \in 1..Len(sd) |->
        IF i > Len(genotype_fields) THEN sd[i]
        ELSE LET g == SplitOn(genotype_fields[i], {":"})[1]
                 ac == parse_allele_count(g, is_alt)
             IN [score |-> sd[i].score
                              + (IF ac = None THEN 0 ELSE weight * ac[2]),
                 matched_variants |-> sd[i].matched_variants + 1,
                 total_variants |-> sd[i].total_variants]]

\* the scoring loop over sample_data.iter_mut().zip(genotype_fields)
score_samples(sd, genotype_fields, weight, is_alt) ==
    [i \in 1..Len(sd) |->
        IF i > Len(genotype_fields) THEN sd[i]
        ELSE LET g == SplitOn(genotype_fields[i], {":"})[1]
                 ac == parse_allele_count(g, is_alt)
             IN [score |-> sd[i].score
                              + (IF ac = None THEN 0 ELSE weight * ac[2]),
                 matched_variants |-> sd[i].matched_variants + 1,
                 total_variants |-> sd[i].total_variants + 1]]

\* one iteration of the `for line in chunk.split(..)` loop; st holds
\* sample_data and the locals last_chr, last_pos, vcf_chr_format
process_line(line, ew, st) ==
    IF line = <<>> \/ StartsWith(line, <<"#">>) THEN st
    ELSE IF ~valid_utf8(line) THEN st
    ELSE LET parts == SplitOn(line, {TAB}) IN
    IF Len(parts) < 10 THEN st
    ELSE LET pos == parse_u32(parts[2]) IN
    IF pos = None THEN st
    ELSE LET chr_raw == parts[1]
             st1 == [st EXCEPT !.last_chr = chr_raw,
                               !.last_pos = pos[2],
                               !.vcf_chr_format =
                                   StartsWith(chr_raw, <<"c", "h", "r">>)]
             normalized_chr == trim_start_matches(chr_raw, <<"c", "h", "r">>)
             hit == weights_get(ew, normalized_chr, pos[2])
         IN
    IF hit = None
    THEN [st1 EXCEPT !.sample_data = bump_total(st.sample_data)]
    ELSE LET effect_is_ref == hit[2].allele = parts[4]
             is_alt == hit[2].allele = parts[5]
         IN
    IF ~effect_is_ref /\ ~is_alt
    THEN [st1 EXCEPT !.sample_data = bump_total(st.sample_data)]
    ELSE [st1 EXCEPT !.sample_data =
             score_samples(st.sample_data, SubSeq(parts, 10, Len(parts)),
                           hit[2].weight, is_alt)]

RECURSIVE process_lines(_, _, _)
process_lines(lines, ew, st) ==
    IF lines = <<>> THEN st
    ELSE process_lines(Tail(lines), ew, process_line(Head(lines), ew, st))

\* process_chunk: the updated sample_data and the returned
\* Some((last_chr, last_pos, vcf_chr_format)), here as fields of one record
process_chunk(chunk, ew, sd) ==
    process_lines(SplitOn(chunk, {NL}), ew,
                  [sample_data |-> sd, last_chr |-> <<>>, last_pos |-> 0,
                   vcf_chr_format |-> FALSE])

-----------------------------------------------------------------------------
(* Inputs of SpecMulti: weight tables and variant streams.                 *)

RECURSIVE JoinBy(_, _)
JoinBy(fields, d) ==
    IF fields = <<>> THEN <<>>
    ELSE IF Len(fields) = 1 THEN fields[1]
    ELSE fields[1] \o <<d>> \o JoinBy(Tail(fields), d)

\* the lines, each ended by a newline; the last one only if final_nl
Unlines(ls, final_nl) ==
    IF ls = <<>> THEN <<>>
    ELSE JoinBy(ls, NL) \o (IF final_nl THEN <<NL>> ELSE <<>>)

Chr == <<"c", "h", "r">>
Chr1 == <<"c", "h", "r", "1">>
One == <<"1">>

\* a table with one entry, at ("1", 5), for the given effect allele
WeightTable(allele) ==
    {[chr |-> One, pos |-> 5, allele |-> allele, weight |-> 3]}
\* effect allele = REF of the lines, = ALT of the lines, = neither
WeightTables == {WeightTable(<<"A">>), WeightTable(<<"G">>), WeightTable(<<"T">>)}

\* a data line with REF = A, ALT = G and the given genotype columns
VcfLine(chr, pos, gts) ==
    JoinBy(<<chr, pos, <<".">>, <<"A">>, <<"G">>, <<".">>, <<".">>, <<".">>,
             <<"G", "T">>>> \o gts, TAB)

GenotypeColumns ==
    { << <<"0", "/", "1">>, <<"1", "|", "1">> >>,
      << <<".", "/", "1">>, <<"1", "/", "0", ":", "9">> >>,
      << <<"2", "|", "0">>, <<"0", "/", "0">> >>,
      << <<"4", "/", "1">>, <<"1", "|", "0">> >>,
      << <<"1", "/", "1">> >> }

ShortLine == JoinBy(<<One, <<"5">>, <<".">>>>, TAB)
BadPosLine == VcfLine(One, <<"x", "5">>, << <<"1", "/", "1">>, <<"0", "/", "1">> >>)
BadUtf8Line == VcfLine(One, <<"5">>, << <<"1", "/", "1">>, <<XFF>> >>)
MetaLine == <<"#", "#", "m">>

DataLinePool ==
    {VcfLine(One, <<"5">>, g) : g \in GenotypeColumns}
    \cup {VcfLine(Chr1, <<"5">>, << <<"0", "/", "1">>, <<"1", "|", "1">> >>),
          VcfLine(One, <<"7">>, << <<"0", "/", "1">>, <<"1", "|", "1">> >>),
          ShortLine, BadPosLine, BadUtf8Line, MetaLine, <<>>}

\* the #CHROM line: nine fixed columns and the samples S1, S2
HeaderLine ==
    JoinBy(<< <<"#", "C", "H", "R", "O", "M">>, <<"P">>, <<"I">>, <<"R">>,
              <<"A">>, <<"Q">>, <<"F">>, <<"N">>, <<"T">>,
              <<"S", "1">>, <<"S", "2">> >>, TAB)

RECURSIVE StringsUpTo(_, _)
StringsUpTo(alphabet, n) ==
    IF n = 0 THEN {<<>>}
    ELSE LET shorter == StringsUpTo(alphabet, n - 1)
         IN shorter \cup {Append(s, c) : s \in shorter, c \in alphabet}

VcfStreams ==
    {Unlines(prefix \o <<HeaderLine>> \o body, nl) :
        prefix \in {<<>>, <<MetaLine>>},
        body \in StringsUpTo(DataLinePool, MaxDataLines),
        nl \in BOOLEAN}
    \cup {Unlines(ls, nl) :
        ls \in StringsUpTo({MetaLine, ShortLine}, MaxMetaLines),
        nl \in BOOLEAN}

-----------------------------------------------------------------------------
(* multi_sample.rs: calculate_polygenic_score_multi and write_csv_output.  *)

Err(site) == <<"Err", site>>
Ok(v) == <<"Ok", v>>

NoOutput == [created |-> FALSE, header |-> FALSE, rows |-> <<>>]

RECURSIVE SumScore(_)
SumScore(sd) == IF sd = <<>> THEN 0 ELSE Head(sd).score + SumScore(Tail(sd))
RECURSIVE SumTotal(_)
SumTotal(sd) ==
    IF sd = <<>> THEN 0 ELSE Head(sd).total_variants + SumTotal(Tail(sd))
RECURSIVE SumMatched(_)
SumMatched(sd) ==
    IF sd = <<>> THEN 0 ELSE Head(sd).matched_variants + SumMatched(Tail(sd))

MinOf(a, b) == IF a < b THEN a ELSE b

\* the rows of sample_names.iter().zip(sample_data.iter())
CsvRows(names, sd) ==
    [i \in 1..MinOf(Len(names), Len(sd)) |->
        [name |-> names[i], score |-> sd[i].score,
         total_variants |-> sd[i].total_variants,
         matched_variants |-> sd[i].matched_variants]]

\* write_csv_output stopped by the failure of its k-th fallible call:
\* 0 create_dir_all, 1 open, 2 the header writeln, 2 + j the writeln of
\* row j; k = Len(rows) + 3 is the run in which no call fails
write_csv_output(out, rows, k) ==
    IF k <= 1 THEN out
    ELSE [created |-> TRUE, header |-> k > 2, rows |-> SubSeq(rows, 1, k - 3)]

InitMulti ==
    /\ pc = "open"
    /\ ret = NoRet
    /\ effect_weights \in WeightTables
    /\ vcf \in VcfStreams
    /\ cursor = 0
    /\ sample_names = <<>>
    /\ sample_data = <<>>
    /\ lines_processed = 0
    /\ vcf_chr_format = FALSE
    /\ output = NoOutput
    /\ eof_reads = 0
    /\ GtIdle /\ NormIdle /\ SingleIdle /\ ChunkIdle

\* open_vcf_reader(vcf_path)?
OpenVcfReader ==
    /\ pc = "open"
    /\ \E ok \in BOOLEAN :
          IF ok THEN pc' = "header" /\ ret' = ret
          ELSE pc' = "failed" /\ ret' = Err("open")
    /\ UNCHANGED <<effect_weights, gtVars, normVars, readerVars, multiVars, singleVars,
                   chunkVars>>

\* reader.read_line(&mut header_line)? returns an I/O error
HeaderReadFails ==
    /\ pc = "header"
    /\ pc' = "failed"
    /\ ret' = Err("read_line")
    /\ UNCHANGED <<effect_weights, gtVars, normVars, readerVars, multiVars, singleVars,
                   chunkVars>>

\* one iteration of the `// Find the header` loop whose read_line delivers
\* bytes (or none, at the end of the stream); entering the read loop
\* includes the initialisation of sample_data
HeaderReadLine ==
    /\ pc = "header"
    /\ LET header_line == ReadUntilNL(vcf, cursor) IN
       IF ~valid_utf8(header_line)
       THEN /\ pc' = "failed"
            /\ ret' = Err("read_line_utf8")
            /\ UNCHANGED <<cursor, sample_names, sample_data, eof_reads>>
       ELSE /\ header_line = <<>> => eof_reads < MaxEofReads
            /\ cursor' = cursor + Len(header_line)
            /\ eof_reads' = IF header_line = <<>> THEN eof_reads + 1
                            ELSE eof_reads
            /\ IF StartsWith(header_line, <<"#", "C", "H", "R", "O", "M">>)
               THEN LET names == split_whitespace(header_line) IN
                    /\ sample_names' = SubSeq(names, 10, Len(names))
                    /\ sample_data' =
                           [i \in 1..(IF Len(names) > 9 THEN Len(names) - 9
                                      ELSE 0) |-> SampleDefault]
                    /\ pc' = "body"
               ELSE UNCHANGED <<sample_names, sample_data, pc>>
            /\ ret' = ret
    /\ UNCHANGED <<effect_weights, vcf, lines_processed, vcf_chr_format,
                   output, gtVars, normVars, singleVars, chunkVars>>

\* mutant: the error path writes the rows scored so far before returning
BodyReadFails_flush ==
    /\ pc = "body"
    /\ pc' = "failed"
    /\ ret' = Err("read_until")
    /\ output' = [created |-> TRUE, header |-> TRUE,
                  rows |-> CsvRows(sample_names, sample_data)]
    /\ UNCHANGED <<effect_weights, gtVars, normVars, readerVars, sample_names,
                   sample_data, lines_processed, vcf_chr_format, eof_reads,
                   singleVars, chunkVars>>

\* reader.read_until(b'\n', &mut buffer)? returns an I/O error
BodyReadFails ==
    /\ pc = "body"
    /\ pc' = "failed"
    /\ ret' = Err("read_until")
    /\ UNCHANGED <<effect_weights, gtVars, normVars, readerVars, multiVars, singleVars,
                   chunkVars>>

\* one iteration of the read loop whose read_until succeeds
BodyReadLine ==
    /\ pc = "body"
    /\ LET buffer == ReadUntilNL(vcf, cursor) IN
       IF buffer = <<>>
       THEN /\ pc' = "write"
            /\ UNCHANGED <<cursor, lines_processed, sample_data,
                           vcf_chr_format>>
       ELSE /\ cursor' = cursor + Len(buffer)
            /\ lines_processed' = lines_processed + 1
            /\ IF ~StartsWith(buffer, <<"#">>)
               THEN LET r == process_chunk(buffer, effect_weights, sample_data)
                    IN /\ sample_data' = r.sample_data
                       /\ vcf_chr_format' = r.vcf_chr_format
               ELSE UNCHANGED <<sample_data, vcf_chr_format>>
            /\ pc' = pc
    /\ UNCHANGED <<ret, effect_weights, vcf, sample_names, output, eof_reads,
                   gtVars, normVars, singleVars, chunkVars>>

\* write_csv_output(..)? and the return of the aggregate
WriteCsvOutput ==
    /\ pc = "write"
    /\ LET rows == CsvRows(sample_names, sample_data) IN
       \E k \in 0..(Len(rows) + 3) :
          /\ output' = write_csv_output(output, rows, k)
          /\ IF k = Len(rows) + 3
             THEN /\ pc' = "done"
                  /\ ret' = Ok([avg_score |-> <<SumScore(sample_data),
                                               Len(sample_data)>>,
                                total_variants |-> SumTotal(sample_data),
                                matched_variants |-> SumMatched(sample_data),
                                vcf_chr_format |-> vcf_chr_format])
             ELSE /\ pc' = "failed"
                  /\ ret' = Err("write_csv_output")
    /\ UNCHANGED <<effect_weights, gtVars, normVars, readerVars, sample_names,
                   sample_data, lines_processed, vcf_chr_format, eof_reads,
                   singleVars, chunkVars>>

NextMulti ==
    \/ OpenVcfReader
    \/ HeaderReadFails
    \/ HeaderReadLine
    \/ BodyReadFails
    \/ BodyReadLine
    \/ WriteCsvOutput

SpecMulti == InitMulti /\ [][NextMulti]_vars

-----------------------------------------------------------------------------
(* single_sample.rs: calculate_polygenic_score.                            *)

\* the `match genotype.chars().next()` of the single-sample scorer; None is
\* the `_ => continue` arm
single_allele_count(genotype) ==
    IF genotype = <<>> THEN None
    ELSE IF genotype[1] = "0" THEN Some(0)
    ELSE IF genotype[1] = "1"
         THEN Some(IF Len(genotype) >= 3 /\ genotype[3] = "1" THEN 2 ELSE 1)
    ELSE None

\* what BufRead::lines() removes from the end of a line: "\n", then "\r"
strip_newline(buf) ==
    LET a == IF buf # <<>> /\ buf[Len(buf)] = NL
             THEN SubSeq(buf, 1, Len(buf) - 1) ELSE buf
    IN IF a # <<>> /\ a[Len(a)] = "\r" THEN SubSeq(a, 1, Len(a) - 1) ELSE a

\* the body of the `for (index, line) in reader.lines()` loop after `line?`;
\* acc holds score, total_variants and matched_variants
single_line(line, ew, acc) ==
    IF StartsWith(line, <<"#">>) THEN acc
    ELSE LET counted == [acc EXCEPT !.total_variants = @ + 1]
             parts == SplitOn(line, {TAB})
         IN
    IF Len(parts) < 10 THEN counted
    ELSE LET pos == parse_u32(parts[2]) IN
    IF pos = None THEN counted
    ELSE LET hit == weights_get(ew, parts[1], pos[2]) IN
    IF hit = None THEN counted
    ELSE LET ac == single_allele_count(parts[10]) IN
    IF ac = None THEN counted
    ELSE [score |-> acc.score + hit[2].weight * ac[2],
          total_variants |-> acc.total_variants + 1,
          matched_variants |-> acc.matched_variants + 1]

\* the single-sample table: (chr, pos) -> weight
SingleWeightTables ==
    {{[chr |-> One, pos |-> 5, weight |-> 3]},
     {[chr |-> One, pos |-> 5, weight |-> 3],
      [chr |-> Chr1, pos |-> 5, weight |-> 2]}}

SingleGenotypes ==
    {<<"0", "/", "1">>, <<"1", "/", "0">>, <<"1", "|", "1">>,
     <<"0", "/", "0">>, <<".", "/", "1">>, <<"1", "/", "1", ":", "7">>}

SingleLinePool ==
    {VcfLine(One, <<"5">>, <<g>>) : g \in SingleGenotypes}
    \cup {VcfLine(Chr1, <<"5">>, << <<"1", "/", "1">> >>),
          VcfLine(One, <<"7">>, << <<"1", "/", "1">> >>),
          ShortLine, BadPosLine, BadUtf8Line, MetaLine, <<>>}

SingleStreams ==
    {Unlines(ls, nl) :
        ls \in StringsUpTo(SingleLinePool, MaxSingleLines), nl \in BOOLEAN}

InitSingle ==
    /\ pc = "open"
    /\ ret = NoRet
    /\ effect_weights \in SingleWeightTables
    /\ vcf \in SingleStreams
    /\ cursor = 0
    /\ score = 0
    /\ total_variants = 0
    /\ matched_variants = 0
    /\ GtIdle /\ NormIdle /\ MultiIdle /\ ChunkIdle

\* File::open(path)?
SingleOpen ==
    /\ pc = "open"
    /\ \E ok \in BOOLEAN :
          IF ok THEN pc' = "lines" /\ ret' = ret
          ELSE pc' = "failed" /\ ret' = Err("open")
    /\ UNCHANGED <<effect_weights, gtVars, normVars, readerVars, multiVars, singleVars,
                   chunkVars>>

\* `let line = line?;` on an item of lines() that is an I/O error
SingleReadFails ==
    /\ pc = "lines"
    /\ pc' = "failed"
    /\ ret' = Err("io")
    /\ UNCHANGED <<effect_weights, gtVars, normVars, readerVars, multiVars, singleVars,
                   chunkVars>>

\* one item of reader.lines() whose read delivers bytes, or the end of the
\* iterator and the return of the aggregate
SingleReadLine ==
    /\ pc = "lines"
    /\ LET buf == ReadUntilNL(vcf, cursor) IN
       IF buf = <<>>
       THEN /\ pc' = "done"
            /\ ret' = Ok([score |-> score, total_variants |-> total_variants,
                          matched_variants |-> matched_variants])
            /\ UNCHANGED <<cursor, singleVars>>
       ELSE IF ~valid_utf8(buf)
       THEN /\ pc' = "failed"
            /\ ret' = Err("invalid_utf8")
            /\ UNCHANGED <<cursor, singleVars>>
       ELSE LET acc == single_line(strip_newline(buf), effect_weights,
                                   [score |-> score,
                                    total_variants |-> total_variants,
                                    matched_variants |-> matched_variants])
            IN /\ cursor' = cursor + Len(buf)
               /\ score' = acc.score
               /\ total_variants' = acc.total_variants
               /\ matched_variants' = acc.matched_variants
               /\ UNCHANGED <<pc, ret>>
    /\ UNCHANGED <<effect_weights, vcf, gtVars, normVars, multiVars, chunkVars>>

NextSingle == SingleOpen \/ SingleReadFails \/ SingleReadLine

SpecSingle == InitSingle /\ [][NextSingle]_vars

-----------------------------------------------------------------------------
(* main.rs: calculate_polygenic_score and process_chunk.                   *)

\* the `match genotype.get(0)` of main.rs process_chunk
main_allele_count(genotype) ==
    IF genotype = <<>> THEN None
    ELSE IF genotype[1] = "0" THEN Some(0)
    ELSE IF genotype[1] = "1"
         THEN Some(IF Len(genotype) >= 3 /\ genotype[3] = "1" THEN 2 ELSE 1)
    ELSE None

U8Max == 255

\* from_utf8(..).ok().and_then(|s| s.parse::<u8>().ok())
parse_u8(s) ==
    IF ~valid_utf8(s) \/ parse_u32(s) = None THEN None
    ELSE IF parse_u32(s)[2] > U8Max THEN None
    ELSE parse_u32(s)

\* one iteration of the loop of main.rs process_chunk
main_line(line, ew, acc) ==
    IF line = <<>> \/ line[1] = "#" THEN acc
    ELSE LET counted == [acc EXCEPT !.total_variants = @ + 1]
             parts == SplitOn(line, {TAB})
         IN
    IF Len(parts) < 10 THEN counted
    ELSE LET chr == parse_u8(parts[1])
             pos == IF valid_utf8(parts[2]) THEN parse_u32(parts[2]) ELSE None
         IN
    IF chr = None \/ pos = None THEN counted
    ELSE LET hit == weights_get(ew, chr[2], pos[2]) IN
    IF hit = None THEN counted
    ELSE LET ac == main_allele_count(parts[10]) IN
    IF ac = None THEN counted
    ELSE [score |-> acc.score + hit[2].weight * ac[2],
          total_variants |-> acc.total_variants + 1,
          matched_variants |-> acc.matched_variants + 1]

RECURSIVE main_lines(_, _, _)
main_lines(lines, ew, acc) ==
    IF lines = <<>> THEN acc
    ELSE main_lines(Tail(lines), ew, main_line(Head(lines), ew, acc))

ZeroAggregate == [score |-> 0, total_variants |-> 0, matched_variants |-> 0]

\* main.rs process_chunk(chunk, effect_weights)
main_process_chunk(chunk, ew) ==
    main_lines(SplitOn(chunk, {NL}), ew, ZeroAggregate)

\* the fold of the per-chunk results
RECURSIVE fold_results(_, _)
fold_results(rs, acc) ==
    IF rs = <<>> THEN acc
    ELSE fold_results(Tail(rs),
             [score |-> acc.score + Head(rs).score,
              total_variants |-> acc.total_variants + Head(rs).total_variants,
              matched_variants |->
                  acc.matched_variants + Head(rs).matched_variants])

\* (mmap.len() + chunk_size - 1) / chunk_size
num_chunks == (Len(mmap) + chunk_size - 1) \div chunk_size

\* the main.rs table: (chr as u8, pos) -> weight
MainWeightTables == {{[chr |-> 1, pos |-> 5, weight |-> 3]}}

MainLinePool ==
    {VcfLine(One, <<"5">>, << <<"1", "/", "1">> >>),
     VcfLine(One, <<"7">>, << <<"1", "/", "0">> >>),
     VcfLine(One, <<"5">>, << <<"0", "/", "1">> >>),
     ShortLine, MetaLine, <<>>}

MmapFiles ==
    {Unlines(ls, nl) :
        ls \in StringsUpTo(MainLinePool, MaxMmapLines), nl \in BOOLEAN}

\* chunk_size is 10 MB in main.rs; the model runs the same partition with
\* chunk sizes of a few bytes on files of a few lines
InitChunk ==
    /\ pc = "open"
    /\ ret = NoRet
    /\ effect_weights \in MainWeightTables
    /\ mmap \in MmapFiles
    /\ chunk_size \in 1..MaxChunkSize
    /\ results = <<>>
    /\ GtIdle /\ NormIdle /\ ReaderIdle /\ MultiIdle /\ SingleIdle

\* File::open(path)? and Mmap::map(&file)?
MainOpen ==
    /\ pc = "open"
    /\ \E ok \in BOOLEAN :
          IF ok THEN pc' = "map" /\ ret' = ret
          ELSE pc' = "failed" /\ ret' = Err("open")
    /\ UNCHANGED <<effect_weights, gtVars, normVars, readerVars, multiVars, singleVars,
                   chunkVars>>

\* the closure of the parallel map on chunk i; the chunks share nothing but
\* the read-only table and collect() keeps index order, so the model takes
\* them in index order
MapChunk ==
    /\ pc = "map"
    /\ Len(results) < num_chunks
    /\ LET i == Len(results)
           start == i * chunk_size
           end == MinOf(start + chunk_size, Len(mmap))
       IN results' = Append(results,
              main_process_chunk(SubSeq(mmap, start + 1, end), effect_weights))
    /\ UNCHANGED <<pc, ret, effect_weights, mmap, chunk_size, gtVars, normVars,
                   readerVars, multiVars, singleVars>>

\* the fold over the collected results and the return
FoldResults ==
    /\ pc = "map"
    /\ Len(results) = num_chunks
    /\ pc' = "done"
    /\ ret' = Ok(fold_results(results, ZeroAggregate))
    /\ UNCHANGED <<effect_weights, chunkVars, gtVars, normVars, readerVars, multiVars,
                   singleVars>>

NextChunk == MainOpen \/ MapChunk \/ FoldResults

SpecChunk == InitChunk /\ [][NextChunk]_vars

-----------------------------------------------------------------------------
(* common.rs: FileType::detect.                                            *)

FileFormatLine ==
    <<"#", "#", "f", "i", "l", "e", "f", "o", "r", "m", "a", "t", "=",
      "V", "C", "F">>

\* a #CHROM line with k tab-separated fields
ChromLine(k) ==
    JoinBy(<< <<"#", "C", "H", "R", "O", "M">> >> \o [i \in 1..(k - 1) |-> <<"f">>],
           TAB)

DetectStreams ==
    {<<>>}
    \cup {Unlines(<<first>> \o ls, nl) :
            first \in {FileFormatLine, MetaLine},
            ls \in StringsUpTo({MetaLine} \cup {ChromLine(k) : k \in 1..MaxHeaderFields},
                               MaxDetectLines),
            nl \in BOOLEAN}

\* `count - 9` on usize: the difference, or on underflow the wrapped value
\* 2^64 - v, which no TLC integer holds and which is kept as v with a flag
usize_minus_9(count) ==
    IF count >= 9 THEN [wrapped |-> FALSE, v |-> count - 9]
    ELSE [wrapped |-> TRUE, v |-> 9 - count]

\* sample_count > 1; a wrapped value is at least 2^64 - 9
more_than_one(sample_count) ==
    IF sample_count.wrapped THEN TRUE ELSE sample_count.v > 1

InitDetect ==
    /\ pc = "open"
    /\ ret = NoRet
    /\ effect_weights = {}
    /\ vcf \in DetectStreams
    /\ cursor = 0
    /\ GtIdle /\ NormIdle /\ MultiIdle /\ SingleIdle /\ ChunkIdle

\* File::open(path)?
DetectOpen ==
    /\ pc = "open"
    /\ \E ok \in BOOLEAN :
          IF ok THEN pc' = "first_line" /\ ret' = ret
          ELSE pc' = "failed" /\ ret' = Err("open")
    /\ UNCHANGED <<effect_weights, readerVars, gtVars, normVars, multiVars,
                   singleVars, chunkVars>>

\* a reader.read_line(&mut buffer)? that returns an I/O error
DetectReadFails ==
    /\ pc \in {"first_line", "scan"}
    /\ pc' = "failed"
    /\ ret' = Err("read_line")
    /\ UNCHANGED <<effect_weights, readerVars, gtVars, normVars, multiVars,
                   singleVars, chunkVars>>

\* the first read_line and the ##fileformat=VCF test
DetectFirstLine ==
    /\ pc = "first_line"
    /\ LET buffer == ReadUntilNL(vcf, cursor) IN
       IF ~valid_utf8(buffer)
       THEN pc' = "failed" /\ ret' = Err("read_line_utf8") /\ cursor' = cursor
       ELSE IF ~StartsWith(buffer, FileFormatLine)
       THEN /\ pc' = "failed"
            /\ ret' = Err("Not a VCF file")
            /\ cursor' = cursor + Len(buffer)
       ELSE /\ pc' = "scan"
            /\ ret' = ret
            /\ cursor' = cursor + Len(buffer)
    /\ UNCHANGED <<effect_weights, vcf, gtVars, normVars, multiVars,
                   singleVars, chunkVars>>

\* one iteration of `while reader.read_line(&mut buffer)? > 0`, or its end.
\* On a #CHROM line with fewer than 9 fields the subtraction underflows: a
\* build with overflow checks panics, a build without them wraps.
DetectScanLine ==
    /\ pc = "scan"
    /\ LET buffer == ReadUntilNL(vcf, cursor) IN
       IF ~valid_utf8(buffer)
       THEN pc' = "failed" /\ ret' = Err("read_line_utf8") /\ cursor' = cursor
       ELSE IF buffer = <<>>
       THEN /\ pc' = "failed"
            /\ ret' = Err("VCF header not found")
            /\ cursor' = cursor
       ELSE IF StartsWith(buffer, <<"#", "C", "H", "R", "O", "M">>)
       THEN LET sample_count == usize_minus_9(Len(SplitOn(buffer, {TAB}))) IN
            /\ cursor' = cursor + Len(buffer)
            /\ \E overflow_checks \in BOOLEAN :
                  IF sample_count.wrapped /\ overflow_checks
                  THEN pc' = "panicked" /\ ret' = ret
                  ELSE /\ pc' = "detected"
                       /\ ret' = Ok(IF more_than_one(sample_count)
                                    THEN "MultiSample" ELSE "SingleSample")
       ELSE /\ cursor' = cursor + Len(buffer)
            /\ UNCHANGED <<pc, ret>>
    /\ UNCHANGED <<effect_weights, vcf, gtVars, normVars, multiVars,
                   singleVars, chunkVars>>

NextDetect ==
    DetectOpen \/ DetectReadFails \/ DetectFirstLine \/ DetectScanLine

SpecDetect == InitDetect /\ [][NextDetect]_vars

-----------------------------------------------------------------------------
(* SpecScorers: the runs of the multi-sample scorer together with the runs *)
(* of the single-sample scorer; the table tells which scorer is running.   *)

MultiRun == effect_weights \in WeightTables
SingleRun == effect_weights \in SingleWeightTables

InitScorers == InitMulti \/ InitSingle

NextScorers == (MultiRun /\ NextMulti) \/ (SingleRun /\ NextSingle)

SpecScorers == InitScorers /\ [][NextScorers]_vars

-----------------------------------------------------------------------------
(* SpecNorm: the chromosome normalization of process_chunk and             *)
(* load_scoring_file, chr.trim_start_matches("chr"), applied and applied   *)
(* again to its own result.                                                *)

ChrAlphabet == {"c", "h", "r", "1"}

InitNorm ==
    /\ pc = "chr_input"
    /\ ret = NoRet
    /\ effect_weights = {}
    /\ chr_str \in StringsUpTo(ChrAlphabet, MaxChrLen)
    /\ chr_stripped = <<>>
    /\ GtIdle /\ ReaderIdle /\ MultiIdle /\ SingleIdle /\ ChunkIdle

\* let normalized_chr = chr.trim_start_matches("chr").to_string();
NormalizeChr ==
    /\ pc = "chr_input"
    /\ chr_stripped' = trim_start_matches(chr_str, Chr)
    /\ pc' = "normalized"
    /\ UNCHANGED <<ret, effect_weights, chr_str, gtVars, readerVars,
                   multiVars, singleVars, chunkVars>>

\* the same normalization applied to an already normalized chromosome
NormalizeAgain ==
    /\ pc = "normalized"
    /\ chr_stripped' = trim_start_matches(chr_stripped, Chr)
    /\ pc' = "renormalized"
    /\ UNCHANGED <<ret, effect_weights, chr_str, gtVars, readerVars,
                   multiVars, singleVars, chunkVars>>

NextNorm == NormalizeChr \/ NormalizeAgain

SpecNorm == InitNorm /\ [][NextNorm]_vars

-----------------------------------------------------------------------------
(* SpecGT: parse_allele_count on every short genotype string.              *)

GtAlphabet == {"0", "1", "2", "3", "4", ".", "/", "|"}

InitGT ==
    /\ pc = "gt_input"
    /\ ret = NoRet
    /\ effect_weights = {}
    /\ gt \in StringsUpTo(GtAlphabet, MaxGtLen)
    /\ effect_is_alt \in BOOLEAN
    /\ allele_count = None
    /\ ReaderIdle /\ MultiIdle /\ SingleIdle /\ ChunkIdle /\ NormIdle

ParseGenotype ==
    /\ pc = "gt_input"
    /\ allele_count' = parse_allele_count(gt, effect_is_alt)
    /\ pc' = "gt_parsed"
    /\ UNCHANGED <<ret, effect_weights, gt, effect_is_alt, readerVars,
                   multiVars, singleVars, chunkVars, normVars>>

NextGT == ParseGenotype

SpecGT == InitGT /\ [][NextGT]_vars

-----------------------------------------------------------------------------
(* Claims about parse_allele_count (SpecGT).                               *)

Seps == {"/", "|"}
Ones(a, b) == (IF a = "1" THEN 1 ELSE 0) + (IF b = "1" THEN 1 ELSE 0)
SlashToBar(g) == [i \in 1..Len(g) |-> IF g[i] = "/" THEN "|" ELSE g[i]]

\* C3: with the effect allele equal to ALT, "1/1" counts 2, "0/0" counts 0 and
\* "0/1", "1/0" count 1; with the effect allele equal to REF the count is
\* 2 minus that; and writing '|' for '/' never changes the result.
C3_OrientationSymmetry ==
    pc = "gt_parsed" =>
        /\ \A a \in {"0", "1"}, b \in {"0", "1"}, s \in Seps :
              gt = <<a, s, b>> =>
                  allele_count = Some(IF effect_is_alt THEN Ones(a, b)
                                      ELSE 2 - Ones(a, b))
        /\ allele_count = parse_allele_count(SlashToBar(gt), effect_is_alt)

C3_Witness ==
    /\ pc = "gt_parsed"
    /\ gt = <<"0", "|", "1">>
    /\ ~effect_is_alt
    /\ allele_count = Some(1)

GtTokens(g) == SplitOn(g, Seps)
HasForeignToken(g) ==
    \E k \in 1..Len(GtTokens(g)) :
        GtTokens(g)[k] # <<>> /\ GtTokens(g)[k] \notin {<<"0">>, <<"1">>}

\* C7: a genotype with any token other than "0" or "1" is unmatched:
\* parse_allele_count returns None for it.
C7_ForeignTokenIsNone ==
    (pc = "gt_parsed" /\ HasForeignToken(gt)) => allele_count = None

-----------------------------------------------------------------------------
(* Claims about calculate_polygenic_score_multi (SpecMulti).               *)

\* the line the next read_until delivers, without its newline
CurLine == SplitOn(ReadUntilNL(vcf, cursor), {NL})[1]
Fields(line) == SplitOn(line, {TAB})
\* a step of the read loop that handed one line to process_chunk
BodyStep == pc = "body" /\ pc' = "body" /\ cursor' > cursor
IsDataLine(line) ==
    line # <<>> /\ ~StartsWith(line, <<"#">>) /\ valid_utf8(line)
Usable(line) ==
    /\ IsDataLine(line)
    /\ Len(Fields(line)) >= 10
    /\ parse_u32(Fields(line)[2]) # None
\* the line hits the weight table and the effect allele is its REF or ALT
Resolves(line, ew) ==
    /\ Usable(line)
    /\ \E e \in ew :
          /\ e.chr = trim_start_matches(Fields(line)[1], Chr)
          /\ e.pos = parse_u32(Fields(line)[2])[2]
          /\ e.allele \in {Fields(line)[4], Fields(line)[5]}
MissingGt(field) ==
    LET g == SplitOn(field, {":"})[1]
    IN \E i \in 1..Len(g) : g[i] \in {".", "2", "3"}
CountedOnly(i) ==
    sample_data'[i] = [sample_data[i] EXCEPT !.total_variants = @ + 1]

\* C2: on a line that hits the table with a resolvable orientation, a sample
\* whose genotype contains '.', '2' or '3' keeps its score and its
\* matched_variants, and its total_variants grows by exactly one.
C2_MissingDataSafety ==
    [][(BodyStep /\ Resolves(CurLine, effect_weights)) =>
          \A i \in 1..Len(sample_data) :
              (9 + i <= Len(Fields(CurLine))
                  /\ MissingGt(Fields(CurLine)[9 + i])) => CountedOnly(i)]_vars

\* C5: a data line with fewer than 10 fields, or whose position does not
\* parse, adds one to total_variants of every sample and leaves
\* matched_variants and score alone.
C5_MalformedLineCounted ==
    [][(BodyStep /\ IsDataLine(CurLine) /\ ~Usable(CurLine)) =>
          \A i \in 1..Len(sample_data) : CountedOnly(i)]_vars

\* C6: once the header scan has read the end of the stream without having
\* seen a #CHROM line, the run has failed with "header not found".
C6_HeaderNotFoundFails ==
    eof_reads > 0 => (pc = "failed" /\ ret = Err("header not found"))

ReadErrors == {Err("read_line"), Err("read_line_utf8"), Err("read_until")}

\* C8: write_csv_output runs only after the read loop has seen the clean end
\* of the stream, and a run that returns a read error has left the output
\* file untouched.
C8_NoPartialResultOnReadError ==
    /\ output # NoOutput => (cursor = Len(vcf) /\ pc \in {"done", "failed"})
    /\ (pc = "failed" /\ ret \in ReadErrors) => output = NoOutput

C8_Witness ==
    /\ pc = "failed"
    /\ ret = Err("read_until")
    /\ lines_processed > 0
    /\ SumMatched(sample_data) > 0

StreamLines == SplitOn(vcf, {NL})
IsHeader(line) == StartsWith(line, <<"#", "C", "H", "R", "O", "M">>)
HeaderIdx ==
    CHOOSE i \in 1..Len(StreamLines) :
        IsHeader(StreamLines[i]) /\ \A j \in 1..(i - 1) : ~IsHeader(StreamLines[j])
UsableIdx == {i \in (HeaderIdx + 1)..Len(StreamLines) : Usable(StreamLines[i])}
FirstUsable ==
    StreamLines[CHOOSE i \in UsableIdx : \A j \in UsableIdx : i <= j]

\* C10: the returned vcf_chr_format is whether the chromosome of the first
\* usable data record starts with "chr"; no later line changes it.
C10_FlagFromFirstUsableRecord ==
    (pc = "done" /\ UsableIdx # {}) =>
        ret[2].vcf_chr_format = StartsWith(Fields(FirstUsable)[1], Chr)

-----------------------------------------------------------------------------
(* Claims about the single-sample scorers (SpecSingle, SpecChunk).         *)

\* a step of the lines() loop that processed one line
SingleStep == pc = "lines" /\ pc' = "lines" /\ cursor' > cursor
SingleCurLine == strip_newline(ReadUntilNL(vcf, cursor))
SingleHit(line, ew) ==
    /\ Usable(line)
    /\ \E e \in ew :
          e.chr = Fields(line)[1] /\ e.pos = parse_u32(Fields(line)[2])[2]
SingleWeight(line, ew) ==
    (CHOOSE e \in ew :
        e.chr = Fields(line)[1] /\ e.pos = parse_u32(Fields(line)[2])[2]).weight

\* C4: on a matched line whose genotype is two tokens from {0, 1}, the score
\* grows by the weight times the number of '1' tokens: "0/1" and "1/0" both
\* count 1, "1/1" counts 2 and "0/0" counts 0.
C4_AlleleCountIsTokenCount ==
    [][(SingleStep /\ SingleHit(SingleCurLine, effect_weights)) =>
          \A a \in {"0", "1"}, b \in {"0", "1"}, sep \in Seps :
              Fields(SingleCurLine)[10] = <<a, sep, b>> =>
                  score' = score
                      + SingleWeight(SingleCurLine, effect_weights) * Ones(a, b)]_vars

\* C9: a line that is not valid text never aborts the run: the only errors
\* the single-sample scorer returns are failures to open or to read.
C9_InvalidTextDoesNotAbort ==
    pc = "failed" => ret \in {Err("open"), Err("io")}

\* C1: the totals summed over the chunks equal those of the whole file
\* processed as one chunk.
C1_ChunkingPreservesCounts ==
    pc = "done" =>
        LET whole == main_process_chunk(mmap, effect_weights) IN
        /\ ret[2].total_variants = whole.total_variants
        /\ ret[2].matched_variants = whole.matched_variants

-----------------------------------------------------------------------------
(* Claims about the chromosome normalization (SpecNorm).                   *)

\* C11: normalizing an already normalized chromosome string changes nothing:
\* stripping the "chr" prefix twice gives what stripping it once gives.
C11_NormalizationIdempotent ==
    [][pc = "normalized" => chr_stripped' = chr_stripped]_vars

C11_Witness ==
    /\ pc = "renormalized"
    /\ chr_str = <<"c", "h", "r", "c", "h", "r", "1">>
    /\ chr_stripped = <<"1">>

-----------------------------------------------------------------------------
(* Claims about the accumulators (SpecScorers, SpecMulti).                 *)

\* C12: every accumulator has matched_variants <= total_variants: each
\* SampleData of the multi-sample scorer and the pair of counters of the
\* single-sample scorer.
C12_MatchedAtMostTotal ==
    /\ \A i \in 1..Len(sample_data) :
          sample_data[i].matched_variants <= sample_data[i].total_variants
    /\ matched_variants <= total_variants

C12_Witness ==
    /\ MultiRun
    /\ \E i \in 1..Len(sample_data) :
          /\ sample_data[i].matched_variants > 0
          /\ sample_data[i].matched_variants < sample_data[i].total_variants

\* C13: in multi-sample mode all sample accumulators hold the same
\* total_variants, also after a line that carries fewer genotype columns
\* than the header declared samples.
C13_SameTotalForAllSamples ==
    \A i \in 1..Len(sample_data), j \in 1..Len(sample_data) :
        sample_data[i].total_variants = sample_data[j].total_variants

-----------------------------------------------------------------------------
(* Claims about FileType::detect (SpecDetect).                             *)

\* the #CHROM line that detect classifies: the first one after line 1
DetectHeaderIdx ==
    CHOOSE i \in 2..Len(StreamLines) :
        IsHeader(StreamLines[i])
            /\ \A j \in 2..(i - 1) : ~IsHeader(StreamLines[j])

\* C14: detect returns MultiSample exactly when the #CHROM line has more than
\* 10 tab-separated fields and SingleSample otherwise, and the subtraction
\* `count - 9` never overflows, also for a #CHROM line of fewer than 9 fields.
C14_DetectBySampleColumns ==
    /\ pc # "panicked"
    /\ pc = "detected" =>
          ret = Ok(IF Len(Fields(StreamLines[DetectHeaderIdx])) > 10
                   THEN "MultiSample" ELSE "SingleSample")

====
